---- MODULE Spec2Model ----
(***************************************************************************)
(* Model of src/main.py: the label-image Generator (generate_batch) and    *)
(* the Page Compiler (create_full_page_qr_doc).                            *)
(*                                                                         *)
(* Strings are sequences of one-character strings.  The output directory   *)
(* is the pair (dirExists, files), files mapping each entry name to its    *)
(* content.  The Generator advances statement group by statement group     *)
(* (encode, compose, save, log), because the directory and the console are *)
(* observable between the groups and a raise can end the run at each one.  *)
(***************************************************************************)
EXTENDS Integers, Sequences, FiniteSets, TLC

\* ------------------------------------------------------------ bounds
MaxLen == 3        \* longest location string of a single-location batch
MaxLocs == 2       \* longest list of locations
MaxRuns == 2       \* number of Generator runs on one configuration
MaxPadding == 2    \* largest padding
NegPadding == 15   \* the most negative padding is -NegPadding
MaxBoxSize == 2    \* largest box_size

\* ------------------------------------------------------------ constants
Border == 4        \* qrcode.QRCode(..., border=4)
FontSize == 20     \* cfg.settings.font_size of the batches
SmallFontSize == 1 \* the smallest cfg.settings.font_size a font loads at
NameMax == 255     \* longest file name, in bytes, the file system takes

Chars == {"a", "/", "\\"}
DotPng == <<".", "p", "n", "g">>

\* The character chr(0).
NulChar == "NUL"

Max(a, b) == IF a >= b THEN a ELSE b

StringsUpTo(n) == UNION {[1..k -> Chars] : k \in 1..n}
Repeat(c, n) == [k \in 1..n |-> c]
ListsUpTo(S, n) == UNION {[1..k -> S] : k \in 0..n}

\* Entries a directory may hold before the Generator runs.
ForeignPng == <<"Z", ".", "P", "N", "G">>
ForeignTxt == <<"n", ".", "t", "x", "t">>
ForeignEntries == {ForeignPng, ForeignTxt}

PaddingSet == {-NegPadding, -1, 0, MaxPadding}
BoxSizes == {0, 1, MaxBoxSize}
FontSizes == {0, SmallFontSize, FontSize}

VARIABLES
    cfg,            \* cfg.locations and cfg.settings.{font_size, padding, box_size}
    font,           \* the font get_font resolved, with the face it measures with
    dirExists,      \* whether output_dir exists
    files,          \* output_dir: entry name -> content
    initialNames,   \* the entries output_dir held before the first run
    pc,             \* position of generate_batch
    runs,           \* how many times generate_batch has been started
    i,              \* index of the location the loop is at (1-based)
    qr_w,           \* qr_img.size (the symbol is square), 0 before the first encode
    canvas,         \* the composed canvas of the current location
    safe_filename,  \* the sanitized name of the current location
    log,            \* the lines the current run printed
    encoded,        \* indices whose QR image was made in the current run
    written,        \* indices whose save completed in the current run, in order
    created,        \* names the current run wrote
    raised,         \* the call whose exception ended the current run
    ioEver,         \* whether the file system has refused a call in any run
    snap,           \* the directory as the first run left it
    doc,            \* the document file the Compiler last saved
    dirSeen,        \* what os.listdir returned in the last Compiler run
    compileResult   \* how the last Compiler run ended

vars == <<cfg, font, dirExists, files, initialNames, pc, runs, i, qr_w, canvas,
          safe_filename, log, encoded, written, created, raised, ioEver, snap,
          doc, dirSeen, compileResult>>

genLocals == <<i, qr_w, canvas, safe_filename, log, encoded, written, created>>
docVars == <<doc, dirSeen, compileResult>>


\* ------------------------------------------------------------ filenames

\* str.replace for a one-character pattern and a one-character replacement:
\* every occurrence is replaced, the other characters stay where they are.
Replace(s, old, new) == [k \in 1..Len(s) |-> IF s[k] = old THEN new ELSE s[k]]

\* A sanitizer that forgets the backslash.
SafeFilenameSlashOnly(data) == Replace(data, "/", "-")

\* safe_filename = data.replace("/", "-").replace("\\", "-")
SafeFilename(data) == Replace(Replace(data, "/", "-"), "\\", "-")

\* A path that carries the number of the run.
FinalPathPerRun(data) == SafeFilename(data) \o <<"-">> \o Repeat("a", runs) \o DotPng

\* A path without the extension.
FinalPathNoExtension(data) == SafeFilename(data)

\* final_path = os.path.join(output_dir, f"{safe_filename}.png"), as the entry
\* name inside output_dir.
FinalPath(data) == SafeFilename(data) \o DotPng

\* str.lower on the characters the model uses.
Lower(c) ==
    CASE c = "P" -> "p"
      [] c = "N" -> "n"
      [] c = "G" -> "g"
      [] c = "Z" -> "z"
      [] OTHER -> c

\* An extension test that is case-sensitive.
IsPngEntryCaseSensitive(f) ==
    /\ Len(f) >= Len(DotPng)
    /\ SubSeq(f, Len(f) - Len(DotPng) + 1, Len(f)) = DotPng

\* A filter that keeps every entry.
IsPngEntryAny(f) == Len(f) >= 0

\* f.lower().endswith(".png")
IsPngEntry(f) ==
    /\ Len(f) >= Len(DotPng)
    /\ [k \in 1..Len(DotPng) |-> Lower(f[Len(f) - Len(DotPng) + k])] = DotPng

\* The code point of a character: Python compares strings by code point.
Ord(c) ==
    CASE c = NulChar -> 0
      [] c = "-" -> 45
      [] c = "." -> 46
      [] c = "/" -> 47
      [] c = "G" -> 71
      [] c = "N" -> 78
      [] c = "P" -> 80
      [] c = "Z" -> 90
      [] c = "\\" -> 92
      [] c = "a" -> 97
      [] c = "g" -> 103
      [] c = "n" -> 110
      [] c = "p" -> 112
      [] c = "t" -> 116
      [] c = "x" -> 120

\* s < t for Python strings.
RECURSIVE LexLess(_, _)
LexLess(s, t) ==
    IF t = <<>> THEN FALSE
    ELSE IF s = <<>> THEN TRUE
    ELSE IF Head(s) # Head(t) THEN Ord(Head(s)) < Ord(Head(t))
    ELSE LexLess(Tail(s), Tail(t))

RECURSIVE Insert(_, _)
Insert(x, sorted) ==
    IF sorted = <<>> THEN <<x>>
    ELSE IF LexLess(Head(sorted), x) THEN <<Head(sorted)>> \o Insert(x, Tail(sorted))
    ELSE <<x>> \o sorted

RECURSIVE InsertionSort(_)
InsertionSort(seq) ==
    IF seq = <<>> THEN <<>> ELSE Insert(Head(seq), InsertionSort(Tail(seq)))

\* The listing used as it comes.
Unsorted(seq) == seq

\* sorted(...) of a list of names.
Sorted(seq) == InsertionSort(seq)

\* [f for f in listing if f.lower().endswith(".png")]
RECURSIVE PngOnly(_)
PngOnly(listing) ==
    IF listing = <<>> THEN <<>>
    ELSE (IF IsPngEntry(Head(listing)) THEN <<Head(listing)>> ELSE <<>>)
         \o PngOnly(Tail(listing))

\* The orders in which os.listdir may return the entries S.
Listings(S) ==
    {f \in [1..Cardinality(S) -> S] : \A a, b \in 1..Cardinality(S) : a # b => f[a] # f[b]}


\* ------------------------------------------------------------ QR symbol and caption

\* qrcode.QRCode() corrects errors at level M.  Data codewords of the versions
\* 1 to 40 at that level (the library's bit limit is 8 times as many).
DataCodewordsM ==
    <<16, 28, 44, 64, 86, 108, 124, 154, 182, 216,
      254, 290, 334, 365, 415, 453, 507, 563, 627, 669,
      714, 782, 860, 914, 1000, 1062, 1128, 1193, 1267, 1373,
      1455, 1541, 1631, 1725, 1812, 1914, 1992, 2102, 2216, 2334>>

Versions == 1..Len(DataCodewordsM)

\* Bits of a payload of n bytes in byte mode: the mode indicator, the length
\* field (8 bits up to version 9, 16 from version 10) and the bytes.  The
\* payloads of the model are in byte mode, or so short that every mode gives
\* version 1.
NeededBits(n, version) == 4 + (IF version < 10 THEN 8 ELSE 16) + 8 * n

Holds(version, n) == NeededBits(n, version) <= 8 * DataCodewordsM[version]

\* The longest byte payload a symbol of the version holds.
ByteCapacity(version) == DataCodewordsM[version] - (IF version < 10 THEN 2 ELSE 3)

\* qr.make(fit=True) picks the smallest version that holds the payload and raises
\* DataOverflowError when none does.
Fits(data) == {v \in Versions : Holds(v, Len(data))} # {}
QRVersion(data) ==
    CHOOSE v \in Versions :
        Holds(v, Len(data)) /\ \A u \in Versions : Holds(u, Len(data)) => v <= u

\* A payload one byte longer than the largest symbol holds.
Oversized == Repeat("a", ByteCapacity(Len(DataCodewordsM)) + 1)

\* A payload one byte longer than a version-1 symbol holds.
SecondVersion == Repeat("a", ByteCapacity(1) + 1)

\* Locations of the multi-location batches.
BatchNames == {<<"a">>, <<"/">>, <<"\\">>}

\* A location whose file name is one byte longer than the file system takes,
\* and one that holds chr(0).
LongName == Repeat("a", NameMax - Len(DotPng) + 1)
NulName == <<"a", NulChar>>

\* Batches with a location that cannot be a file name: alone and last.
BadNameBatches == {<<LongName>>, <<NulName>>, <<<<"a">>, NulName>>}

\* Batches with a location that fits no QR symbol: alone, last and first.
OverflowBatches == {<<Oversized>>, <<<<"a">>, Oversized>>, <<Oversized, <<"a">>>>}

\* Locations of the layout batches.
LayoutTexts == {<<"a">>, <<"j">>, SecondVersion}

\* qr_img.size: (17 + 4*version) modules plus the border on both sides, each
\* module box_size pixels wide; the symbol is square.
QRSize(data) == (17 + 4 * QRVersion(data) + 2 * Border) * cfg.box_size

\* A glyph of a face at a size, in whole pixels: its ink from xmin to xmax
\* right of the pen and from ymin to ymax above the baseline, and the advance
\* of the pen.
Glyph(xmin, xmax, ymin, ymax, adv) ==
    [xmin |-> xmin, xmax |-> xmax, ymin |-> ymin, ymax |-> ymax, adv |-> adv]

\* DejaVuSans.ttf at 20 pixels, as FreeType renders it.  No pair of these
\* characters is kerned.
DejaVuSans20 ==
    [ascent |-> 19,
     glyph |-> [c \in {"a", "/", "\\", "j", NulChar} |->
                   CASE c = "a" -> Glyph(1, 11, 0, 11, 12)
                     [] c = "j" -> Glyph(-1, 4, -4, 15, 6)
                     [] c = NulChar -> Glyph(1, 11, -4, 14, 12)
                     [] OTHER -> Glyph(0, 7, -1, 15, 7)]]

\* DejaVuSans.ttf at 1 pixel.
DejaVuSans1 ==
    [ascent |-> 1,
     glyph |-> [c \in {"a", "/", "\\", "j"} |->
                   CASE c = "a" -> Glyph(0, 1, -1, 1, 1)
                     [] c = "j" -> Glyph(-1, 1, 0, 1, 0)
                     [] OTHER -> Glyph(0, 1, 0, 1, 0)]]

DejaVuSans(size) == IF size = SmallFontSize THEN DejaVuSans1 ELSE DejaVuSans20

\* LiberationSans-Regular.ttf at 20 pixels, a face with the advance widths of
\* Arial.
LiberationSans20 ==
    [ascent |-> 19,
     glyph |-> [c \in {"a", "/", "\\", "j"} |->
                   CASE c = "a" -> Glyph(0, 12, 0, 11, 11)
                     [] c = "j" -> Glyph(-1, 4, -4, 15, 4)
                     [] OTHER -> Glyph(0, 6, 0, 15, 6)]]

\* ImageFont.load_default(): the built-in bitmap font, every character a cell 6
\* wide and 11 high, or an outline face at 10 pixels (here the "a" of
\* LiberationSans-Regular.ttf at 10 pixels).
BitmapDefault ==
    [ascent |-> 11, glyph |-> [c \in {"a", "/", "\\", "j"} |-> Glyph(0, 6, 0, 11, 6)]]
OutlineDefault ==
    [ascent |-> 10, glyph |-> [c \in {"a"} |-> Glyph(0, 6, 0, 5, 6)]]

MinOf(S) == CHOOSE x \in S : \A y \in S : x <= y
MaxOf(S) == CHOOSE x \in S : \A y \in S : x >= y

\* The advances of the glyphs lo to hi of the text, added up by halves.
RECURSIVE Advance(_, _, _, _)
Advance(face, text, lo, hi) ==
    IF lo > hi THEN 0
    ELSE IF lo = hi THEN face.glyph[text[lo]].adv
    ELSE Advance(face, text, lo, (lo + hi) \div 2)
         + Advance(face, text, (lo + hi) \div 2 + 1, hi)

\* The pen after the first k glyphs of the text.
Pen(face, text, k) == Advance(face, text, 1, k)

\* The box of a text in a face: the ink of its glyphs, each at its pen
\* position, united with the pen line from 0 to the last advance; the top of
\* the box is counted down from the ascender (anchor "la").
BBoxOf(face, text) ==
    LET g(k) == face.glyph[text[k]]
        at(k) == Pen(face, text, k - 1)
        ks == 1..Len(text)
        x_min == MinOf({0} \cup {at(k) + g(k).xmin : k \in ks})
        x_max == MaxOf({0} \cup {at(k) + g(k).xmax : k \in ks}
                           \cup {Pen(face, text, k) : k \in ks})
        y_min == MinOf({0} \cup {g(k).ymin : k \in ks})
        y_max == MaxOf({0} \cup {g(k).ymax : k \in ks})
    IN  <<x_min, face.ascent - y_max, x_max, face.ascent - y_min>>

\* font.getbbox(data): (left, top, right, bottom), as the resolved font measures
\* the text.
GetBBox(data) == BBoxOf(font.face, data)

TextW(bbox) == bbox[3] - bbox[1]
TextH(bbox) == bbox[4] - bbox[2]

\* A canvas as wide as the QR image only.
CanvasWidthQrOnly(qrw, text_w) == qrw + (cfg.padding * 2)

\* canvas_width = max(qr_w, text_w) + (padding * 2)
CanvasWidth(qrw, text_w) == Max(qrw, text_w) + (cfg.padding * 2)

\* canvas_height = qr_h + text_h + (padding * 3)
CanvasHeight(qrh, text_h) == qrh + text_h + (cfg.padding * 3)

NoCanvas ==
    [made |-> FALSE, data |-> <<>>, w |-> 0, h |-> 0, qr_w |-> 0, qr_h |-> 0,
     bbox |-> <<0, 0, 0, 0>>, qr_at |-> <<0, 0>>, text_at |-> <<0, 0>>]

\* Steps 2 to 4 of the loop body: measure the caption, size the canvas, paste the
\* QR image and draw the caption.
Compose(data, qrw) ==
    LET bbox == GetBBox(data)
        text_w == TextW(bbox)
        text_h == TextH(bbox)
        canvas_width == CanvasWidth(qrw, text_w)
        canvas_height == CanvasHeight(qrw, text_h)
    IN  [made |-> TRUE, data |-> data, w |-> canvas_width, h |-> canvas_height,
         qr_w |-> qrw, qr_h |-> qrw, bbox |-> bbox,
         qr_at |-> <<(canvas_width - qrw) \div 2, cfg.padding>>,
         text_at |-> <<(canvas_width - text_w) \div 2,
                       qrw + (cfg.padding * 2) - bbox[2]>>]

\* Image.new refuses a negative width or height (ValueError).
CanvasAllowed(c) == c.w >= 0 /\ c.h >= 0

\* canvas.convert("RGB"): the file holds the composed picture without alpha.
Flatten(c) == [kind |-> "png", mode |-> "RGB", image |-> c]

\* An image file the Generator did not write.
ForeignImage == [kind |-> "png", mode |-> "RGB", image |-> NoCanvas]

\* An entry add_picture cannot read: no image file, or a sub-directory.
NotAnImage == [kind |-> "other", mode |-> "none", image |-> NoCanvas]

\* What a save that raised after opening the file leaves of an entry.
Truncated == [kind |-> "truncated", mode |-> "none", image |-> NoCanvas]

\* Whether add_picture can read the entry.
Readable(content) == content.kind = "png"

\* A start line that counts one location too few.
StartLineShort(n) == [kind |-> "start", count |-> n - 1, path |-> <<>>]

\* logger.info(f"Starting batch generation for {len(cfg.locations)} locations...")
StartLine(n) == [kind |-> "start", count |-> n, path |-> <<>>]

\* logger.info(f"  [...] Generated: {final_path}")
GeneratedLine(path) == [kind |-> "generated", count |-> 0, path |-> path]

\* ------------------------------------------------------------ document

\* docx.shared.Cm, from millimetres: a length in EMU (360000 per centimetre).
Cm(mm) == mm * 36000

\* The section settings of lines 94-103.
LandscapeA4 ==
    [orientation |-> "LANDSCAPE", page_width |-> Cm(297), page_height |-> Cm(210),
     left_margin |-> Cm(10), right_margin |-> Cm(10),
     top_margin |-> Cm(10), bottom_margin |-> Cm(15)]

\* One centered paragraph holding one picture 18 cm high.
PictureParagraph(filename) == [alignment |-> 1, picture |-> filename, height |-> Cm(180)]

NoDoc == [saved |-> FALSE, broken |-> FALSE, section |-> LandscapeA4, paragraphs |-> <<>>]

\* What a doc.save that raised after opening the file leaves of the document.
BrokenDoc == [saved |-> FALSE, broken |-> TRUE, section |-> LandscapeA4, paragraphs |-> <<>>]

\* The document of lines 91-125 for the list png_files.
BuildDoc(png_files) ==
    [saved |-> TRUE, broken |-> FALSE, section |-> LandscapeA4,
     paragraphs |-> [k \in 1..Len(png_files) |-> PictureParagraph(png_files[k])]]



\* ------------------------------------------------------------ get_font

Platforms == {"Windows", "Darwin", "Linux"}

\* The search list of each platform, in order.
FontPaths(platform) ==
    CASE platform = "Windows" ->
             <<"C:\\Windows\\Fonts\\arial.ttf", "C:\\Windows\\Fonts\\segoeui.ttf">>
      [] platform = "Darwin" ->
             <<"/Library/Fonts/Arial.ttf", "/System/Library/Fonts/Helvetica.ttc">>
      [] OTHER -> <<"/usr/share/fonts/truetype/dejavu/DejaVuSans.ttf">>

FontFiles == UNION {{FontPaths(pl)[k] : k \in 1..Len(FontPaths(pl))} : pl \in Platforms}

\* The first path that loads; ImageFont.load_default() when none does.
RECURSIVE FirstLoadable(_, _)
FirstLoadable(paths, loadable) ==
    IF paths = <<>> THEN "load_default"
    ELSE IF Head(paths) \in loadable THEN Head(paths)
    ELSE FirstLoadable(Tail(paths), loadable)

GetFont(platform, loadable) == FirstLoadable(FontPaths(platform), loadable)

\* ------------------------------------------------------------ initial states

\* The faces a font file may hold at a size.  For the files of the other
\* platforms, which are not at hand, the faces measured here stand.
Faces(path, font_size) ==
    CASE path = "load_default" -> {BitmapDefault, OutlineDefault}
      [] path = "/usr/share/fonts/truetype/dejavu/DejaVuSans.ttf" ->
             {DejaVuSans(font_size)}
      [] OTHER -> {LiberationSans20, DejaVuSans20}

\* The font object of line 40: the file it came from, the size it was loaded
\* at (load_default() is given none: 0) and the face it measures with.
Font(path, font_size, face) ==
    [path |-> path, size |-> IF path = "load_default" THEN 0 ELSE font_size,
     face |-> face]

\* No font object: ImageFont.truetype raises ValueError for a size that is not
\* positive, which get_font does not catch.
NoFont == [path |-> "none", size |-> 0, face |-> [ascent |-> 0, glyph |-> <<>>]]

GetFontRaises(font_size) == font_size <= 0

\* The font of a platform on which every font file loads.
LinuxFont(font_size) ==
    IF GetFontRaises(font_size) THEN NoFont
    ELSE Font(GetFont("Linux", FontFiles), font_size, DejaVuSans(font_size))

Config(locations, font_size, padding, box_size) ==
    [locations |-> locations, font_size |-> font_size, padding |-> padding,
     box_size |-> box_size]

\* What does not depend on the configuration: nothing has run yet.
InitRest ==
    /\ initialNames = DOMAIN files
    /\ pc = "idle"
    /\ runs = 0
    /\ i = 1
    /\ qr_w = 0
    /\ canvas = NoCanvas
    /\ safe_filename = <<>>
    /\ log = <<>>
    /\ encoded = {}
    /\ written = <<>>
    /\ created = {}
    /\ raised = "none"
    /\ ioEver = FALSE
    /\ snap = [taken |-> FALSE, files |-> files]
    /\ doc = NoDoc
    /\ dirSeen = [exists |-> FALSE, names |-> {}, unreadable |-> {}]
    /\ compileResult = "none"

\* Lists of locations, over a directory that is absent or holds foreign entries.
InitBatch ==
    /\ \E locations \in ListsUpTo(BatchNames, MaxLocs) :
           cfg = Config(locations, FontSize, MaxPadding, MaxBoxSize)
    /\ font = LinuxFont(FontSize)
    /\ \/ dirExists = FALSE /\ files = <<>>
       \/ /\ dirExists = TRUE
          /\ \E present \in {{ForeignTxt}, ForeignEntries}, png \in {ForeignImage, NotAnImage} :
                 files = [n \in present |-> IF n = ForeignPng THEN png ELSE NotAnImage]
    /\ InitRest

\* Batches in which a location fits no QR symbol.
InitOverflow ==
    /\ \E locations \in OverflowBatches :
           cfg = Config(locations, FontSize, MaxPadding, MaxBoxSize)
    /\ font = LinuxFont(FontSize)
    /\ dirExists = FALSE
    /\ files = <<>>
    /\ InitRest

\* Batches in which a location cannot be a file name.
InitBadNames ==
    /\ \E locations \in BadNameBatches :
           cfg = Config(locations, FontSize, MaxPadding, MaxBoxSize)
    /\ font = LinuxFont(FontSize)
    /\ dirExists = FALSE
    /\ files = <<>>
    /\ InitRest

\* One location, over every string of the alphabet.
InitNames ==
    /\ \E s \in StringsUpTo(MaxLen) :
           cfg = Config(<<s>>, FontSize, MaxPadding, MaxBoxSize)
    /\ font = LinuxFont(FontSize)
    /\ dirExists = FALSE
    /\ files = <<>>
    /\ InitRest

\* One location, over every platform and every set of font files that load.
InitFonts ==
    /\ cfg = Config(<<<<"a">>>>, FontSize, MaxPadding, MaxBoxSize)
    /\ \E platform \in Platforms, loadable \in SUBSET FontFiles :
           \E face \in Faces(GetFont(platform, loadable), FontSize) :
               font = Font(GetFont(platform, loadable), FontSize, face)
    /\ dirExists = FALSE
    /\ files = <<>>
    /\ InitRest

\* One location, over every layout setting.
InitLayout ==
    /\ \E s \in LayoutTexts, fs \in FontSizes, p \in PaddingSet, b \in BoxSizes :
           /\ cfg = Config(<<s>>, fs, p, b)
           /\ font = LinuxFont(fs)
    /\ dirExists = FALSE
    /\ files = <<>>
    /\ InitRest

Init == InitBatch \/ InitOverflow \/ InitBadNames \/ InitNames \/ InitFonts \/ InitLayout

\* ------------------------------------------------------------ generate_batch

data == cfg.locations[i]

WriteFile(path, content) ==
    [n \in DOMAIN files \cup {path} |-> IF n = path THEN content ELSE files[n]]

\* Lines 34-54: makedirs(exist_ok=True), the start line, the loop entered.
StartBatch ==
    /\ pc \in {"idle", "done", "aborted"}
    /\ runs < MaxRuns
    /\ ~GetFontRaises(cfg.font_size)
    /\ runs' = runs + 1
    /\ dirExists' = TRUE
    /\ log' = <<StartLine(Len(cfg.locations))>>
    /\ i' = 1
    /\ qr_w' = 0
    /\ canvas' = NoCanvas
    /\ safe_filename' = <<>>
    /\ encoded' = {}
    /\ written' = <<>>
    /\ created' = {}
    /\ raised' = "none"
    /\ snap' = IF runs = 1 THEN [taken |-> TRUE, files |-> files] ELSE snap
    /\ pc' = IF cfg.locations = <<>> THEN "done" ELSE "encode"
    /\ UNCHANGED <<cfg, font, files, initialNames, ioEver, docVars>>

\* Line 39: os.makedirs raises (the directory cannot be created); the run ends
\* before the font is loaded and before anything is logged.
MakedirsFails ==
    /\ pc \in {"idle", "done", "aborted"}
    /\ runs < MaxRuns
    /\ ~dirExists
    /\ runs' = runs + 1
    /\ log' = <<>>
    /\ i' = 1
    /\ qr_w' = 0
    /\ canvas' = NoCanvas
    /\ safe_filename' = <<>>
    /\ encoded' = {}
    /\ written' = <<>>
    /\ created' = {}
    /\ raised' = "makedirs"
    /\ ioEver' = TRUE
    /\ snap' = IF runs = 1 THEN [taken |-> TRUE, files |-> files] ELSE snap
    /\ pc' = "aborted"
    /\ UNCHANGED <<cfg, font, dirExists, files, initialNames, docVars>>

\* Lines 39-40: the directory is there, and get_font raises ValueError for a
\* font_size that is not positive; the run ends before anything is logged.
GetFontFails ==
    /\ pc \in {"idle", "done", "aborted"}
    /\ runs < MaxRuns
    /\ GetFontRaises(cfg.font_size)
    /\ runs' = runs + 1
    /\ dirExists' = TRUE
    /\ log' = <<>>
    /\ i' = 1
    /\ qr_w' = 0
    /\ canvas' = NoCanvas
    /\ safe_filename' = <<>>
    /\ encoded' = {}
    /\ written' = <<>>
    /\ created' = {}
    /\ raised' = "get_font"
    /\ snap' = IF runs = 1 THEN [taken |-> TRUE, files |-> files] ELSE snap
    /\ pc' = "aborted"
    /\ UNCHANGED <<cfg, font, files, initialNames, ioEver, docVars>>

\* Line 56: qrcode.QRCode raises ValueError for a box_size that is not
\* positive; the exception ends the run.
QRCodeRefused ==
    /\ pc = "encode"
    /\ cfg.box_size <= 0
    /\ raised' = "QRCode"
    /\ pc' = "aborted"
    /\ UNCHANGED <<cfg, font, dirExists, files, initialNames, runs, genLocals,
                   ioEver, snap, docVars>>

\* Lines 56-60: the payload fits a QR symbol.
EncodeQR ==
    /\ pc = "encode"
    /\ cfg.box_size > 0
    /\ Fits(data)
    /\ qr_w' = QRSize(data)
    /\ encoded' = encoded \cup {i}
    /\ pc' = "compose"
    /\ UNCHANGED <<cfg, font, dirExists, files, initialNames, runs, i, canvas,
                   safe_filename, log, written, created, raised, ioEver, snap, docVars>>

\* An overflow that is swallowed: the location is skipped and the loop goes on.
EncodeOverflowSkip ==
    /\ pc = "encode"
    /\ cfg.box_size > 0
    /\ ~Fits(data)
    /\ i' = i + 1
    /\ pc' = IF i = Len(cfg.locations) THEN "done" ELSE "encode"
    /\ UNCHANGED <<cfg, font, dirExists, files, initialNames, runs, qr_w, canvas,
                   safe_filename, log, encoded, written, created, raised, ioEver,
                   snap, docVars>>

\* Line 58: the payload fits no QR symbol; the exception ends the run.
EncodeOverflow ==
    /\ pc = "encode"
    /\ cfg.box_size > 0
    /\ ~Fits(data)
    /\ raised' = "qr.make"
    /\ pc' = "aborted"
    /\ UNCHANGED <<cfg, font, dirExists, files, initialNames, runs, genLocals,
                   ioEver, snap, docVars>>

\* Lines 63-79: the canvas is created and filled.
ComposeCanvas ==
    /\ pc = "compose"
    /\ CanvasAllowed(Compose(data, qr_w))
    /\ canvas' = Compose(data, qr_w)
    /\ pc' = "save"
    /\ UNCHANGED <<cfg, font, dirExists, files, initialNames, runs, i, qr_w,
                   safe_filename, log, encoded, written, created, raised, ioEver,
                   snap, docVars>>

\* Line 72: Image.new raises on a negative size; the exception ends the run.
ComposeRefused ==
    /\ pc = "compose"
    /\ ~CanvasAllowed(Compose(data, qr_w))
    /\ raised' = "Image.new"
    /\ pc' = "aborted"
    /\ UNCHANGED <<cfg, font, dirExists, files, initialNames, runs, genLocals,
                   ioEver, snap, docVars>>

\* Whether open() takes the file name: no chr(0) in it and no more bytes than
\* the file system allows.
ValidName(name) ==
    /\ Len(name) <= NameMax
    /\ \A k \in 1..Len(name) : name[k] # NulChar

\* A save that leaves a file of the same run alone.
SaveImageKeepFirst ==
    /\ pc = "save"
    /\ ValidName(FinalPath(data))
    /\ canvas.w > 0 /\ canvas.h > 0
    /\ safe_filename' = SafeFilename(data)
    /\ files' = IF FinalPath(data) \in created THEN files
                ELSE WriteFile(FinalPath(data), Flatten(canvas))
    /\ written' = Append(written, i)
    /\ created' = created \cup {FinalPath(data)}
    /\ pc' = "log"
    /\ UNCHANGED <<cfg, font, dirExists, initialNames, runs, i, qr_w, canvas, log,
                   encoded, raised, ioEver, snap, docVars>>

\* Lines 83-85: the file is written, replacing an entry of the same name.
SaveImage ==
    /\ pc = "save"
    /\ ValidName(FinalPath(data))
    /\ canvas.w > 0 /\ canvas.h > 0
    /\ safe_filename' = SafeFilename(data)
    /\ files' = WriteFile(FinalPath(data), Flatten(canvas))
    /\ written' = Append(written, i)
    /\ created' = created \cup {FinalPath(data)}
    /\ pc' = "log"
    /\ UNCHANGED <<cfg, font, dirExists, initialNames, runs, i, qr_w, canvas, log,
                   encoded, raised, ioEver, snap, docVars>>

\* Line 85: open() refuses the file name (ValueError for chr(0), OSError for a
\* name that is too long); the directory is as before and the exception ends
\* the run.
SaveRefused ==
    /\ pc = "save"
    /\ ~ValidName(FinalPath(data))
    /\ safe_filename' = SafeFilename(data)
    /\ raised' = "save"
    /\ pc' = "aborted"
    /\ UNCHANGED <<cfg, font, dirExists, files, initialNames, runs, i, qr_w, canvas,
                   log, encoded, written, created, ioEver, snap, docVars>>

\* Line 85: the file system refuses the write, before the file is opened or on
\* opening it, or while writing a file it has just created (which it then
\* removes); the directory is as before and the exception ends the run.
SaveFails ==
    /\ pc = "save"
    /\ ValidName(FinalPath(data))
    /\ safe_filename' = SafeFilename(data)
    /\ raised' = "save"
    /\ ioEver' = TRUE
    /\ pc' = "aborted"
    /\ UNCHANGED <<cfg, font, dirExists, files, initialNames, runs, i, qr_w, canvas,
                   log, encoded, written, created, snap, docVars>>

\* Line 85: the save raises after it has opened an entry that was there before;
\* the entry is left emptied or partly written and the exception ends the run.
SaveFailsTruncating ==
    /\ pc = "save"
    /\ ValidName(FinalPath(data))
    /\ FinalPath(data) \in DOMAIN files
    /\ safe_filename' = SafeFilename(data)
    /\ files' = WriteFile(FinalPath(data), Truncated)
    /\ raised' = "save"
    /\ ioEver' = TRUE
    /\ pc' = "aborted"
    /\ UNCHANGED <<cfg, font, dirExists, initialNames, runs, i, qr_w, canvas,
                   log, encoded, written, created, snap, docVars>>

\* Line 87, and the loop moves on.
LogGenerated ==
    /\ pc = "log"
    /\ log' = Append(log, GeneratedLine(FinalPath(data)))
    /\ i' = i + 1
    /\ pc' = IF i = Len(cfg.locations) THEN "done" ELSE "encode"
    /\ UNCHANGED <<cfg, font, dirExists, files, initialNames, runs, qr_w, canvas,
                   safe_filename, encoded, written, created, raised, ioEver, snap,
                   docVars>>

\* ------------------------------------------------------------ create_full_page_qr_doc

genIdle == pc \in {"idle", "done", "aborted"}

\* What os.listdir found, and which of the entries the filter keeps cannot be
\* read as pictures.
Seen ==
    [exists |-> TRUE, names |-> DOMAIN files,
     unreadable |-> {f \in DOMAIN files : IsPngEntry(f) /\ ~Readable(files[f])}]

\* Lines 91-126 on an existing directory whose pictures can all be read.
CreateDoc ==
    /\ genIdle
    /\ dirExists
    /\ Seen.unreadable = {}
    /\ \E listing \in Listings(DOMAIN files) :
           doc' = BuildDoc(Sorted(PngOnly(listing)))
    /\ dirSeen' = Seen
    /\ compileResult' = "saved"
    /\ UNCHANGED <<cfg, font, dirExists, files, initialNames, pc, runs, genLocals,
                   raised, ioEver, snap>>

\* Line 123: add_picture raises on the first entry it cannot read; doc.save is
\* not reached.
CreateDocBadPicture ==
    /\ genIdle
    /\ dirExists
    /\ Seen.unreadable # {}
    /\ dirSeen' = Seen
    /\ compileResult' = "add_picture"
    /\ UNCHANGED <<cfg, font, dirExists, files, initialNames, pc, runs, genLocals,
                   raised, ioEver, snap, doc>>

\* Line 125: doc.save raises; the document file is as before, or left broken
\* when it had been opened.
CreateDocSaveFails ==
    /\ genIdle
    /\ dirExists
    /\ Seen.unreadable = {}
    /\ doc' \in {doc, BrokenDoc}
    /\ dirSeen' = Seen
    /\ compileResult' = "doc.save"
    /\ UNCHANGED <<cfg, font, dirExists, files, initialNames, pc, runs, genLocals,
                   raised, ioEver, snap>>

\* Line 106 on a directory that does not exist: os.listdir raises before
\* doc.save is reached.
CreateDocNoDir ==
    /\ genIdle
    /\ ~dirExists
    /\ dirSeen' = [exists |-> FALSE, names |-> {}, unreadable |-> {}]
    /\ compileResult' = "FileNotFoundError"
    /\ UNCHANGED <<cfg, font, dirExists, files, initialNames, pc, runs, genLocals,
                   raised, ioEver, snap, doc>>

Next ==
    \/ StartBatch
    \/ MakedirsFails
    \/ GetFontFails
    \/ QRCodeRefused
    \/ EncodeQR
    \/ EncodeOverflow
    \/ ComposeCanvas
    \/ ComposeRefused
    \/ SaveImage
    \/ SaveRefused
    \/ SaveFails
    \/ SaveFailsTruncating
    \/ LogGenerated
    \/ CreateDoc
    \/ CreateDocBadPicture
    \/ CreateDocSaveFails
    \/ CreateDocNoDir

Spec == Init /\ [][Next]_vars


\* ------------------------------------------------------------ properties

Locs == cfg.locations
Upto(n) == [k \in 1..n |-> k]
WrittenSet == {written[k] : k \in DOMAIN written}

\* The name the specification gives the PNG of location s: every "/" and every
\* "\" replaced by "-", then ".png".
SanitizedPng(s) ==
    [k \in 1..Len(s) |-> IF s[k] \in {"/", "\\"} THEN "-" ELSE s[k]] \o DotPng

NoSeparator(s) == \A k \in 1..Len(s) : s[k] \notin {"/", "\\"}

\* The entries of S whose name ends in ".png", whatever the case of the letters.
PngNames(S) ==
    {f \in S : /\ Len(f) >= 4
               /\ f[Len(f) - 3] = "."
               /\ f[Len(f) - 2] \in {"p", "P"}
               /\ f[Len(f) - 1] \in {"n", "N"}
               /\ f[Len(f)] \in {"g", "G"}}

\* The save of the current location raised, and the file it was to write has
\* the given name.
FailedSaveOf(name) ==
    pc = "aborted" /\ raised = "save" /\ SanitizedPng(Locs[i]) = name

\* ---- C1
\* The run ended inside the loop, at location i.
InLoop == raised \in {"QRCode", "qr.make", "Image.new", "save"}

\* The name the specification gives the file of s is one the file system
\* takes.
GoodName(s) ==
    /\ Len(SanitizedPng(s)) <= NameMax
    /\ \A k \in 1..Len(s) : s[k] # NulChar

GoodSettings == cfg.font_size > 0 /\ cfg.box_size > 0 /\ cfg.padding >= 0

InCapacity(s) == s # <<>> /\ Fits(s)

\* The run was ended by the file system: the directory could not be made, or
\* a picture of positive size could not be written under a name that is fine.
FileSystemRefused ==
    \/ raised = "makedirs"
    \/ raised = "save" /\ GoodName(Locs[i]) /\ canvas.w > 0 /\ canvas.h > 0

C1_Files ==
    \* every location saved in this run has its file, under the sanitized name,
    \* with a positive width and height
    /\ \A j \in WrittenSet :
           /\ SanitizedPng(Locs[j]) \in DOMAIN files
           /\ \/ FailedSaveOf(SanitizedPng(Locs[j]))
              \/ /\ files[SanitizedPng(Locs[j])].kind = "png"
                 /\ files[SanitizedPng(Locs[j])].image.w > 0
                 /\ files[SanitizedPng(Locs[j])].image.h > 0
    \* one file per location and no other: the directory holds what it held
    \* before, the files of the saved locations, and nothing but files named
    \* after locations
    /\ initialNames \cup {SanitizedPng(Locs[j]) : j \in WrittenSet} \subseteq DOMAIN files
    /\ DOMAIN files \subseteq
           initialNames \cup {SanitizedPng(Locs[j]) : j \in 1..Len(Locs)}
    /\ Cardinality(created) <= Len(written)
    \* a run that ends without an exception has saved every location
    /\ (pc = "done" /\ runs > 0) => WrittenSet = 1..Len(Locs)

\* C1 as stated: for every non-empty location string within QR capacity the
\* Generator produces exactly one PNG file named sanitized(location) + ".png",
\* of positive width and height: no run stops at such a location (but for a
\* file system that refuses the directory or the write).
C1_Original ==
    /\ C1_Files
    /\ (pc = "aborted" /\ i <= Len(Locs) /\ InCapacity(Locs[i])) => FileSystemRefused

\* C1, amended: when font_size and box_size are positive, the padding is not
\* negative and the name sanitized(location) + ".png" is one the file system
\* takes, for every non-empty location string within QR capacity the Generator
\* produces exactly one PNG file of that name, of positive width and height
\* (but for a file system that refuses the directory or the write).  When
\* font_size is not positive get_font raises before the loop, when box_size is
\* not positive QRCode raises, when Image.new raises the padding is negative,
\* and when the name is not taken the save raises: the run ends there and the
\* location has no file.
C1_Amended ==
    /\ C1_Files
    /\ (/\ pc = "aborted" /\ i <= Len(Locs) /\ InCapacity(Locs[i])
        /\ GoodSettings /\ GoodName(Locs[i])) => FileSystemRefused
    /\ (runs > 0 /\ cfg.font_size <= 0) =>
           (pc = "aborted" /\ raised \in {"get_font", "makedirs"} /\ created = {})
    /\ (runs > 0 /\ cfg.font_size > 0 /\ cfg.box_size <= 0 /\ pc \in {"done", "aborted"}
            /\ Locs # <<>>) =>
           (pc = "aborted" /\ raised \in {"QRCode", "makedirs"} /\ created = {})
    /\ (pc = "aborted" /\ raised = "get_font") => cfg.font_size <= 0
    /\ (pc = "aborted" /\ raised = "QRCode") => cfg.box_size <= 0
    /\ (pc = "aborted" /\ raised = "Image.new") => cfg.padding < 0
    /\ \A j \in WrittenSet : GoodName(Locs[j])
    /\ (pc = "aborted" /\ raised = "save" /\ ~GoodName(Locs[i])) =>
           (i \notin WrittenSet /\ SanitizedPng(Locs[i]) \notin DOMAIN files)

C1_Witness ==
    /\ pc = "done"
    /\ GoodSettings
    /\ Len(Locs) = 1
    /\ GoodName(Locs[1])
    /\ \E k \in 1..Len(Locs[1]) : Locs[1][k] = "/"
    /\ SanitizedPng(Locs[1]) \in DOMAIN files

\* ---- C2
\* C2: sanitization returns a result for every location string, applying it
\* twice gives what applying it once gives, and the result holds neither "/"
\* nor "\".
C2_SanitizeIdempotent ==
    /\ \A j \in 1..Len(Locs) :
           /\ Len(SafeFilename(Locs[j])) = Len(Locs[j])
           /\ SafeFilename(SafeFilename(Locs[j])) = SafeFilename(Locs[j])
           /\ NoSeparator(SafeFilename(Locs[j]))
    /\ NoSeparator(safe_filename)
    /\ SafeFilename(safe_filename) = safe_filename
    /\ \A n \in created : NoSeparator(n)

C2_Witness ==
    /\ pc = "log"
    /\ \E a, b \in 1..Len(data) : data[a] = "/" /\ data[b] = "\\"
    /\ safe_filename # data
    /\ Len(safe_filename) = Len(data)

\* ---- C3
Pictures == [k \in 1..Len(doc.paragraphs) |-> doc.paragraphs[k].picture]

\* The document is saved and holds one picture paragraph for each ".png" entry
\* of the directory it was built from, no other, in lexicographic order of the
\* filenames.
C3_Built ==
    /\ compileResult = "saved"
    /\ doc.saved
    /\ Len(Pictures) = Cardinality(PngNames(dirSeen.names))
    /\ {Pictures[k] : k \in 1..Len(Pictures)} = PngNames(dirSeen.names)
    /\ \A a, b \in 1..Len(Pictures) : a < b => LexLess(Pictures[a], Pictures[b])
    /\ \A k \in 1..Len(Pictures) :
           doc.paragraphs[k].alignment = 1 /\ doc.paragraphs[k].height = Cm(180)

\* The Compiler has run on an existing directory and doc.save has not raised.
C3_Ran == compileResult \notin {"none", "doc.save"} /\ dirSeen.exists

\* C3 as stated: for every content of the directory the document holds one
\* picture paragraph for each ".png" entry, no other, in lexicographic order of
\* the filenames (a doc.save that raises set aside).
C3_Original == C3_Ran => C3_Built

\* C3, amended: for every content of the directory in which each ".png" entry is
\* an image file that can be read, the document holds one picture paragraph for
\* each ".png" entry, no other, in lexicographic order of the filenames; when an
\* entry cannot be read the Compiler raises and saves no document (a doc.save
\* that raises set aside).
C3_Amended ==
    /\ [](C3_Ran =>
            /\ dirSeen.unreadable = {} => C3_Built
            /\ dirSeen.unreadable # {} => compileResult = "add_picture")
    /\ [][(dirSeen' # dirSeen /\ compileResult' = "add_picture") => doc' = doc]_vars

C3_Witness ==
    /\ compileResult = "saved"
    /\ Len(Pictures) >= 3
    /\ \E f \in dirSeen.names : f \notin PngNames(dirSeen.names)
    /\ \E f \in dirSeen.names : f[Len(f)] = "G"

\* ---- C4
\* C4 as stated: on a directory that does not exist, or that holds no PNG, the
\* Compiler ends without an error and saves a document of zero pictures (a
\* doc.save that raises set aside).
C4_Original ==
    (/\ compileResult \notin {"none", "doc.save"}
     /\ (~dirSeen.exists \/ PngNames(dirSeen.names) = {})) =>
        (compileResult = "saved" /\ doc.saved /\ doc.paragraphs = <<>>)

\* C4, amended: on an existing directory that holds no PNG the Compiler ends
\* without an error and saves a document of zero pictures (a doc.save that
\* raises set aside); on a directory that does not exist it raises
\* FileNotFoundError and saves no document.
C4_Amended ==
    compileResult \notin {"none", "doc.save"} =>
        /\ (dirSeen.exists /\ PngNames(dirSeen.names) = {}) =>
               (compileResult = "saved" /\ doc.saved /\ doc.paragraphs = <<>>)
        /\ ~dirSeen.exists => (compileResult = "FileNotFoundError" /\ ~doc.saved)

C4_Witness ==
    /\ compileResult = "saved"
    /\ dirSeen.exists
    /\ dirSeen.names # {}
    /\ PngNames(dirSeen.names) = {}
    /\ doc.paragraphs = <<>>

\* ---- C5
C5_Computed ==
    canvas.made =>
        /\ canvas.w = Max(canvas.qr_w, TextW(canvas.bbox)) + 2 * cfg.padding
        /\ canvas.h = canvas.qr_h + TextH(canvas.bbox) + 3 * cfg.padding

C5_Fits ==
    canvas.made =>
        /\ canvas.w >= Max(canvas.qr_w, TextW(canvas.bbox))
        /\ canvas.h >= canvas.qr_h + TextH(canvas.bbox)

\* C5 as stated: for every layout setting the canvas is at least as wide as the
\* wider of QR image and caption and at least as high as the two together, its
\* size being max(QR width, caption width) + 2*padding by QR height + caption
\* height + 3*padding.
C5_Original == C5_Computed /\ C5_Fits

\* C5, amended: the size is computed so for every layout setting, and the canvas
\* fits QR image and caption when the padding is not negative.
C5_Amended == C5_Computed /\ (cfg.padding >= 0 => C5_Fits)

C5_Witness ==
    /\ canvas.made
    /\ cfg.padding > 0
    /\ TextW(canvas.bbox) > canvas.qr_w
    /\ canvas.w = TextW(canvas.bbox) + 2 * cfg.padding

\* ---- C6
\* C6: a second run on the same configuration, once it has ended, leaves the
\* directory as the first run left it: the same files with the same content
\* (runs in which a save raised set aside).
C6_RerunSameDirectory ==
    (snap.taken /\ pc \in {"done", "aborted"} /\ ~ioEver) => files = snap.files

C6_Witness ==
    /\ snap.taken
    /\ ~ioEver
    /\ runs = 2
    /\ pc = "done"
    /\ Cardinality(created) = 2
    /\ initialNames # {}

\* ---- C7
\* The locations before the failing one are written and logged, and their
\* files are on disk.
C7_Before ==
    (pc = "aborted" /\ InLoop) =>
        /\ written = Upto(i - 1)
        /\ Len(log) = i
        /\ \A j \in 1..(i - 1) :
               /\ log[j + 1].path = SanitizedPng(Locs[j])
               /\ SanitizedPng(Locs[j]) \in DOMAIN files

\* Their files are the images that were written.
C7_Intact ==
    (pc = "aborted" /\ InLoop) =>
        \A j \in 1..(i - 1) : files[SanitizedPng(Locs[j])].kind = "png"

\* Their files are the images that were written, but for a file of the name
\* the failing location was to be saved under.
C7_IntactButTarget ==
    (pc = "aborted" /\ InLoop) =>
        \A j \in 1..(i - 1) :
            \/ files[SanitizedPng(Locs[j])].kind = "png"
            \/ FailedSaveOf(SanitizedPng(Locs[j]))

C7_Stopped == C7_Before /\ C7_IntactButTarget

\* No location is skipped: the locations before the current one are saved.
C7_NoSkip == runs > 0 => (written = Upto(i - 1) \/ written = Upto(i))

\* C7 as stated: when location k fails the locations before k are on disk and
\* no location at index k or later has been encoded, written or logged.
C7_Original ==
    /\ C7_NoSkip
    /\ C7_Before
    /\ C7_Intact
    /\ (pc = "aborted" /\ InLoop) => encoded \subseteq 1..(i - 1)

\* C7, amended: when location k fails the run ends there, the locations before
\* k are written and logged and their files stay on disk (a failed save of
\* location k may leave the file of its own name truncated, also when an
\* earlier location of the same sanitized name wrote it), location k is neither
\* completely written nor logged (it has been encoded when it is not the
\* encoding that raised), and no location after k is ever encoded, written or
\* logged.
C7_Amended ==
    /\ [](C7_NoSkip /\ C7_Stopped)
    /\ []((pc = "aborted" /\ InLoop) =>
            /\ encoded \subseteq 1..i
            /\ (raised \in {"QRCode", "qr.make"} => i \notin encoded)
            /\ (raised \in {"save", "Image.new"} => i \in encoded))
    /\ [][pc = "aborted" =>
            \/ pc' = "aborted" /\ UNCHANGED <<files, log, written, encoded, i>>
            \/ runs' = runs + 1]_vars

C7_Witness ==
    /\ pc = "aborted"
    /\ raised = "save"
    /\ i = 2
    /\ Len(Locs) = 2
    /\ SanitizedPng(Locs[1]) \in DOMAIN files
    /\ compileResult = "saved"

\* ---- C8
\* The run ended before the loop, and before the logger was set up.
C8_BeforeLoop == pc = "aborted" /\ raised \in {"makedirs", "get_font"}

C8_Idle == runs = 0 => (log = <<>> /\ encoded = {})

C8_Lines ==
    /\ Len(log) >= 1
    /\ log[1].kind = "start"
    /\ log[1].count = Len(Locs)
    /\ written = Upto(Len(written))
    /\ Len(log) - 1 <= Len(written)
    /\ \A k \in 2..Len(log) :
           /\ log[k].kind = "generated"
           /\ log[k].path = SanitizedPng(Locs[written[k - 1]])
           /\ log[k].path \in DOMAIN files

\* C8 as stated: in every run a start line with the count, then one line per
\* written image in list order, each after its save, and at every point as many
\* image lines as completed writes.
C8_Original ==
    /\ C8_Idle
    /\ runs > 0 => (C8_Lines /\ Len(log) - 1 = Len(written))

\* C8, amended: in every run that gets to the loop, a start line with the
\* count, then one line per written image in list order, each after its save;
\* the image lines are as many as the completed writes, except between a save
\* and its line, where they are one fewer.  A run that os.makedirs or get_font
\* ends logs nothing.
C8_Amended ==
    /\ C8_Idle
    /\ (runs > 0 /\ C8_BeforeLoop) => (log = <<>> /\ written = <<>>)
    /\ (runs > 0 /\ ~C8_BeforeLoop) =>
           /\ C8_Lines
           /\ Len(written) - (Len(log) - 1) \in {0, 1}
           /\ pc # "log" => Len(log) - 1 = Len(written)
           /\ pc = "log" => Len(log) - 1 = Len(written) - 1

C8_Witness ==
    /\ pc = "done"
    /\ Len(Locs) = 2
    /\ Len(log) = 3
    /\ Len(written) = 2

\* ---- C9
\* C9 as stated: the caption's glyph box has left and right margins that differ
\* by at most one pixel, and its top edge is at QR height + 2*padding.
C9_CaptionCentered ==
    canvas.made =>
        LET left_margin == canvas.text_at[1] + canvas.bbox[1]
            right_margin == canvas.w - (canvas.text_at[1] + canvas.bbox[3])
            top_edge == canvas.text_at[2] + canvas.bbox[2]
        IN  /\ left_margin - right_margin \in -1..1
            /\ top_edge = canvas.qr_h + 2 * cfg.padding

\* ---- C10
LastWith(name) ==
    CHOOSE b \in 1..Len(Locs) :
        /\ SanitizedPng(Locs[b]) = name
        /\ \A c \in 1..Len(Locs) : SanitizedPng(Locs[c]) = name => c <= b

Collide(a, b) ==
    a < b /\ Locs[a] # Locs[b] /\ SanitizedPng(Locs[a]) = SanitizedPng(Locs[b])

\* C10: a run over locations that share a sanitized name ends without an error,
\* the one file of that name holds the image of the last of them, and the run
\* has written as many files as there are distinct sanitized names.
C10_LastWins ==
    /\ (pc = "done" /\ runs > 0) =>
           /\ raised = "none"
           /\ Len(written) = Len(Locs)
           /\ \A a, b \in 1..Len(Locs) :
                  Collide(a, b) =>
                      /\ SanitizedPng(Locs[a]) \in DOMAIN files
                      /\ files[SanitizedPng(Locs[a])].image.data
                             = Locs[LastWith(SanitizedPng(Locs[a]))]
           /\ Cardinality(created)
                  = Cardinality({SanitizedPng(Locs[k]) : k \in 1..Len(Locs)})
    /\ raised \in {"none", "makedirs", "get_font", "QRCode", "qr.make", "Image.new", "save"}

C10_Witness ==
    /\ pc = "done"
    /\ runs > 0
    /\ \E a, b \in 1..Len(Locs) : Collide(a, b)
    /\ Cardinality(created) = 1

====
